---------------------------- MODULE Spec2Model ----------------------------
(***************************************************************************)
(* Model of AnonXMusic/platforms/Youtube.py (class YouTubeAPI).            *)
(*                                                                         *)
(* Python strings that the code takes apart (links, ISO-8601 durations,    *)
(* file paths) are sequences of one-character strings, so that splitting,  *)
(* searching and formatting are computed and not assumed.  Strings the     *)
(* code only passes along (titles, urls, messages) are TLA+ strings.       *)
(*                                                                         *)
(* Three specifications:                                                   *)
(*   Spec          details() and playlist() calls against the Google API   *)
(*   SpecResolver  video() and download() calls against yt-dlp and the     *)
(*                 downloads directory                                     *)
(*   SpecDuration  _parse_duration as a pure function                      *)
(***************************************************************************)
EXTENDS Integers, Sequences, FiniteSets

VARIABLES
    YOUTUBE_API_KEY,  \* config.YOUTUBE_API_KEY, fixed for the process
    logged,           \* kinds of LOGGER(__name__).error records written
    calls,            \* per task: the coroutine's arguments, position, locals
    files,            \* paths that exist in the file system
    duration_iso,     \* SpecDuration: the argument of _parse_duration
    parsed            \* SpecDuration: its return value, or NotYet

vars == <<YOUTUBE_API_KEY, logged, calls, files, duration_iso, parsed>>

----------------------------------------------------------------------------
(* Bounds of the model.                                                    *)

NumTasks == 2        \* coroutines that may be in flight together
MaxLimit == 2        \* largest `limit` passed to playlist()
MaxMinutes == 11     \* largest minutes component of a generated duration
MaxSeconds == 61     \* largest seconds component of a generated duration

Tasks == 1..NumTasks

----------------------------------------------------------------------------
(* Python values.                                                          *)

None == <<"None">>
EmptyStr == <<>>
Falsy(x) == x = None \/ x = EmptyStr

Lower == <<"a","b","c","d","e","f","g","h","i","j","k","l","m","n","o","p","q","r","s","t","u","v","w","x","y","z">>
Upper == <<"A","B","C","D","E","F","G","H","I","J","K","L","M","N","O","P","Q","R","S","T","U","V","W","X","Y","Z">>
DigitChars == <<"0","1","2","3","4","5","6","7","8","9">>
Range(s) == {s[i] : i \in 1..Len(s)}

\* the character class [a-zA-Z0-9_-] of both regular expressions
IdChars == Range(Lower) \cup Range(Upper) \cup Range(DigitChars) \cup {"_", "-"}

\* s[i..j] as Python's s[i-1:j]
Slice(s, i, j) == IF j < i THEN <<>> ELSE SubSeq(s, i, j)

\* whether `sub` occurs in s starting at index i
MatchAt(s, sub, i) ==
    /\ i >= 1
    /\ i + Len(sub) - 1 <= Len(s)
    /\ \A k \in 1..Len(sub) : s[i + k - 1] = sub[k]

\* Python's `sub in s`
Contains(s, sub) == \E i \in 1..(Len(s) + 1) : MatchAt(s, sub, i)

Min(S) == CHOOSE x \in S : \A y \in S : x <= y
Max(S) == CHOOSE x \in S : \A y \in S : x >= y

\* Python's s.split(ch)[-1]: what follows the last ch (all of s without one)
AfterLast(s, ch) ==
    LET at == {i \in 1..Len(s) : s[i] = ch}
    IN  IF at = {} THEN s ELSE Slice(s, Max(at) + 1, Len(s))

\* Python's s.split(ch)[0]: what precedes the first ch (all of s without one)
BeforeFirst(s, ch) ==
    LET at == {i \in 1..Len(s) : s[i] = ch}
    IN  IF at = {} THEN s ELSE Slice(s, 1, Min(at) - 1)

\* number of leading characters of s[i..] that are in the class cls
RECURSIVE RunLen(_, _, _)
RunLen(s, i, cls) ==
    IF i <= Len(s) /\ s[i] \in cls THEN 1 + RunLen(s, i + 1, cls) ELSE 0

----------------------------------------------------------------------------
(* Integers as decimal text.                                               *)

DigitVal(c) == CHOOSE d \in 0..9 : DigitChars[d + 1] = c

\* int("...") of a run of digits
RECURSIVE StrToInt(_)
StrToInt(s) ==
    IF s = <<>> THEN 0
    ELSE 10 * StrToInt(Slice(s, 1, Len(s) - 1)) + DigitVal(s[Len(s)])

\* str(n), n >= 0
RECURSIVE IntToStr(_)
IntToStr(n) ==
    IF n < 10 THEN <<DigitChars[n + 1]>>
    ELSE IntToStr(n \div 10) \o <<DigitChars[(n % 10) + 1]>>

\* f"{n:d}": the same as str(n)
FormatD(n) == IntToStr(n)

\* f"{n:02d}": zero-padded to a width of at least two
Format02d(n) == IF n < 10 THEN <<"0">> \o IntToStr(n) ELSE IntToStr(n)

----------------------------------------------------------------------------
(* _parse_duration                                                         *)

\* what isodate.parse_duration gives: a timedelta, or ISO8601Error raised
Timedelta(secs) == [ok |-> TRUE, total_seconds |-> secs]
ISO8601Error == [ok |-> FALSE, total_seconds |-> 0]

\* One optional component <digits><unit> of the time part, read at index i:
\* [value, next index].  Not present: value 0, index unchanged.
IsoComponent(s, i, unit) ==
    LET n == RunLen(s, i, Range(DigitChars))
    IN  IF n > 0 /\ i + n <= Len(s) /\ s[i + n] = unit
        THEN [value |-> StrToInt(Slice(s, i, i + n - 1)), next |-> i + n + 1]
        ELSE [value |-> 0, next |-> i]

\* isodate.parse_duration on the time-only forms PT[nH][nM][nS]: the total
\* number of seconds, or ISO8601Error when the text does not match.
\* "P" must be followed by a designator ("P" alone does not match).
isodate_parse_duration(s) ==
    IF ~(Len(s) >= 2 /\ s[1] = "P" /\ s[2] = "T") THEN ISO8601Error
    ELSE LET h  == IsoComponent(s, 3, "H")
             m  == IsoComponent(s, h.next, "M")
             sc == IsoComponent(s, m.next, "S")
         IN  IF sc.next # Len(s) + 1 THEN ISO8601Error
             ELSE Timedelta(3600 * h.value + 60 * m.value + sc.value)

\* f"{mins}:{secs:02d}": minutes not padded
DurationTextUnpadded(mins, secs) == FormatD(mins) \o <<":">> \o Format02d(secs)

\* f"{mins:02d}:{secs:02d}"
DurationText(mins, secs) == Format02d(mins) \o <<":">> \o Format02d(secs)

\* _parse_duration(duration_iso) -> (total_seconds, "MM:SS")
parse_duration(iso) ==
    IF Falsy(iso) THEN <<0, DurationText(0, 0)>>
    ELSE LET duration_obj == isodate_parse_duration(iso)
         IN  IF ~duration_obj.ok THEN <<0, DurationText(0, 0)>>
             ELSE LET total_seconds == duration_obj.total_seconds
                      mins == total_seconds \div 60
                      secs == total_seconds % 60
                  IN  <<total_seconds, DurationText(mins, secs)>>

----------------------------------------------------------------------------
(* Links.                                                                  *)

base == <<"h","t","t","p","s",":","/","/","w","w","w",".","y","o","u","t","u","b","e",".","c","o","m","/","w","a","t","c","h","?","v","=">>

WatchLink == <<"h","t","t","p","s",":","/","/","w","w","w",".","y","o","u","t","u","b","e",".","c","o","m","/","w","a","t","c","h","?","v","=","d","Q","w","4","w","9","W","g","X","c","Q","&","l","i","s","t","=","P","L","x","-","1">>
ShortLink == <<"h","t","t","p","s",":","/","/","y","o","u","t","u",".","b","e","/","d","Q","w","4","w","9","W","g","X","c","Q","?","t","=","5">>
EmptyShortLink == <<"h","t","t","p","s",":","/","/","y","o","u","t","u",".","b","e","/">>
FreeText == <<"l","o","f","i"," ","v","=","2">>
BareId == <<"d","Q","w","4","w","9","W","g","X","c","Q">>
OtherId == <<"a","b","c","d","e","f","g","h","i","j","k">>
BarePlaylistId == <<"P","L","x","-","1">>

\* length of a video ID in the pattern v=([a-zA-Z0-9_-]{11})
IdLen == 11

\* _extract_video_id(link): the ID, "" or None
extract_video_id(link) ==
    IF Contains(link, <<"y","o","u","t","u",".","b","e">>)
    THEN BeforeFirst(AfterLast(link, "/"), "?")
    ELSE LET at == {i \in 1..Len(link) :
                      /\ MatchAt(link, <<"v", "=">>, i)
                      /\ RunLen(link, i + 2, IdChars) >= IdLen}
         IN  IF at = {} THEN None
             ELSE Slice(link, Min(at) + 2, Min(at) + 1 + IdLen)

\* re.search(r"list=([a-zA-Z0-9_-]+)", link): group 1, or None
search_list_id(link) ==
    LET at == {i \in 1..Len(link) :
                 /\ MatchAt(link, <<"l","i","s","t","=">>, i)
                 /\ RunLen(link, i + 5, IdChars) >= 1}
    IN  IF at = {} THEN None
        ELSE Slice(link, Min(at) + 5, Min(at) + 4 + RunLen(link, Min(at) + 5, IdChars))

----------------------------------------------------------------------------
(* The Google API as the code sees it.                                     *)

ApiKeys == {None, EmptyStr, <<"A","I","z","a">>}

VideoIds == {BareId, OtherId}

Request(endpoint, arg, maxResults) ==
    [endpoint |-> endpoint, arg |-> arg, maxResults |-> maxResults,
     key |-> YOUTUBE_API_KEY]

\* sequences over S of length at most n
RECURSIVE SeqsUpTo(_, _)
SeqsUpTo(S, n) ==
    IF n <= 0 THEN {<<>>}
    ELSE LET shorter == SeqsUpTo(S, n - 1)
         IN  shorter \cup {Append(q, x) : q \in {r \in shorter : Len(r) = n - 1}, x \in S}

SearchItem(v) == [id |-> [videoId |-> v]]
VideoItems(v) ==
    { [id |-> v, title |-> "Never Gonna Give You Up",
       thumbnail_high_url |-> "https://i.ytimg.com/vi/hqdefault.jpg",
       duration |-> <<"P","T","4","M","3","0","S">>],
      [id |-> v, title |-> "Never Gonna Give You Up",
       thumbnail_high_url |-> "None", duration |-> None] }
PlaylistItem(v) == [snippet |-> [resourceId |-> [videoId |-> v]]]

Json(items) == [kind |-> "json", items |-> items]
RequestException == [kind |-> "RequestException", items |-> <<>>]

\* What SESSION.get(...) followed by raise_for_status() and json() can give:
\* a RequestException (no connection, timeout, non-2xx status) or a body
\* whose items answer the request, at most maxResults of them.  A request
\* without a key is answered 403.
ProviderAnswers(req) ==
    {RequestException} \cup
    IF Falsy(req.key) THEN {}
    ELSE CASE req.endpoint = "search" ->
                {Json(q) : q \in SeqsUpTo({SearchItem(v) : v \in VideoIds}, req.maxResults)}
           [] req.endpoint = "videos" ->
                {Json(<<>>)} \cup {Json(<<it>>) : it \in VideoItems(req.arg)}
           [] req.endpoint = "playlistItems" ->
                {Json(q) : q \in SeqsUpTo({PlaylistItem(v) : v \in VideoIds}, req.maxResults)}

----------------------------------------------------------------------------
(* Coroutines.  What a coroutine does between two awaits is one step: the  *)
(* event loop runs nothing else in between.                                *)

NoResult == [kind |-> "none", value |-> <<>>]
Return(v) == [kind |-> "return", value |-> v]
Raise(exc, msg) == [kind |-> "raise", value |-> <<exc, msg>>]

IdleCall ==
    [op |-> "idle", pc |-> "idle", link |-> EmptyStr, videoid |-> FALSE,
     video |-> FALSE, limit |-> 0, query |-> None, filepath |-> None,
     reqs |-> <<>>, answers |-> <<>>, result |-> NoResult,
     resolver |-> "none", ydl_downloads |-> 0, after |-> {}]

\* __init__: the only place that looks at the key
InitLogged ==
    IF Falsy(YOUTUBE_API_KEY) THEN {"YOUTUBE_API_KEY is not configured!"} ELSE {}

\* _fetch_from_api without its except clauses: the exception leaves it
fetch_from_api_unguarded(answer) == answer

\* _fetch_from_api after the round trip: the body, or None
fetch_from_api(answer) ==
    IF answer.kind = "RequestException" THEN [kind |-> "None", items |-> <<>>]
    ELSE answer

\* _fetch_from_api: what the except clause logs
fetch_log(answer) ==
    IF answer.kind = "RequestException" THEN {"Error connecting to Google API"} ELSE {}

\* _get_video_details, the part after the round trip: <<>> for None, else <<item>>
get_video_details(data) ==
    IF data.kind # "json" \/ data.items = <<>> THEN <<>> ELSE <<data.items[1]>>

\* _get_video_details, the params of either branch
VideosParams(id) == Request("videos", id, 0)
SearchParams(q) == Request("search", q, 1)

\* line 92 with the link always taken for an ID
DetailsQueryLinkAsId(link, videoid) == link

\* line 92 with the ID never looked for in a link
DetailsQuerySearchOnly(link, videoid) == IF videoid THEN link ELSE None

\* details(), line 92
DetailsQuery(link, videoid) == IF videoid THEN link ELSE extract_video_id(link)

\* details() without `if not result_item: raise`, the fields read with defaults
DetailsResultDefaults(result_item) ==
    IF result_item = <<>>
    THEN Return(<<"", DurationText(0, 0), 0, "None", EmptyStr>>)
    ELSE LET item == result_item[1]
             d == parse_duration(item.duration)
         IN  Return(<<item.title, d[2], d[1], item.thumbnail_high_url, item.id>>)

\* details(), from `if not result_item` to the return
DetailsResult(result_item) ==
    IF result_item = <<>>
    THEN Raise("ValueError", "Could not get details for the video ID.")
    ELSE LET item == result_item[1]
             d == parse_duration(item.duration)
         IN  Return(<<item.title, d[2], d[1], item.thumbnail_high_url, item.id>>)

\* (link, videoid) pairs details() is called with
DetailsInputs ==
    { <<WatchLink, FALSE>>, <<ShortLink, FALSE>>, <<FreeText, FALSE>>,
      <<EmptyShortLink, FALSE>>, <<BareId, TRUE>> }

Issue(call, req, pc) == [call EXCEPT !.reqs = Append(@, req), !.pc = pc]

Finish(call, result) == [call EXCEPT !.pc = "done", !.result = result]

\* an exception that leaves an awaited call ends the coroutine with it
Propagates(data) == data.kind \notin {"json", "None"}

\* details(link, videoid) up to its first await
DetailsCall(c) ==
    /\ calls[c].pc = "idle"
    /\ \E inp \in DetailsInputs :
         LET query == DetailsQuery(inp[1], inp[2])
             call == [calls[c] EXCEPT !.op = "details", !.link = inp[1],
                                      !.videoid = inp[2], !.query = query]
         IN  calls' = [calls EXCEPT ![c] =
                 IF Falsy(query) THEN Issue(call, SearchParams(inp[1]), "await_search")
                 ELSE Issue(call, VideosParams(query), "await_videos")]
    /\ UNCHANGED <<YOUTUBE_API_KEY, logged, files, duration_iso, parsed>>

\* the search round trip ends; details() runs on to the next await or the raise
SearchReturns(c) ==
    /\ calls[c].pc = "await_search"
    /\ \E answer \in ProviderAnswers(calls[c].reqs[Len(calls[c].reqs)]) :
         LET data == fetch_from_api(answer)
             result_item == get_video_details(data)
             call == [calls[c] EXCEPT !.answers = Append(@, answer)]
         IN  /\ logged' = logged \cup fetch_log(answer)
             /\ calls' = [calls EXCEPT ![c] =
                  IF Propagates(data) THEN Finish(call, Raise(data.kind, "transport"))
                  ELSE IF result_item = <<>>
                  THEN Finish(call, Raise("ValueError", "No video found on YouTube."))
                  ELSE LET query == result_item[1].id.videoId
                       IN  Issue([call EXCEPT !.query = query],
                                 VideosParams(query), "await_videos")]
    /\ UNCHANGED <<YOUTUBE_API_KEY, files, duration_iso, parsed>>

\* the videos round trip ends; details() runs to its end
VideosReturns(c) ==
    /\ calls[c].pc = "await_videos"
    /\ \E answer \in ProviderAnswers(calls[c].reqs[Len(calls[c].reqs)]) :
         LET data == fetch_from_api(answer)
             call == [calls[c] EXCEPT !.answers = Append(@, answer)]
         IN  /\ logged' = logged \cup fetch_log(answer)
             /\ calls' = [calls EXCEPT ![c] =
                  IF Propagates(data) THEN Finish(call, Raise(data.kind, "transport"))
                  ELSE Finish(call, DetailsResult(get_video_details(data)))]
    /\ UNCHANGED <<YOUTUBE_API_KEY, files, duration_iso, parsed>>

\* lines 157-161 asking for one item more than the limit
PlaylistParamsOneMore(playlist_id, limit) ==
    Request("playlistItems", playlist_id, limit + 1)

\* playlist(), lines 157-161
PlaylistParams(playlist_id, limit) == Request("playlistItems", playlist_id, limit)

\* playlist(), lines 164-169
PlaylistResult(data) ==
    IF data.kind = "json" /\ data.items # <<>>
    THEN [i \in 1..Len(data.items) |-> data.items[i].snippet.resourceId.videoId]
    ELSE <<>>

\* (link, videoid) pairs playlist() is called with
PlaylistInputs ==
    { <<WatchLink, FALSE>>, <<FreeText, FALSE>>, <<BarePlaylistId, TRUE>> }

Limits == {1, MaxLimit}

\* playlist(link, limit, user_id, videoid) up to its await
PlaylistCall(c) ==
    /\ calls[c].pc = "idle"
    /\ \E inp \in PlaylistInputs, limit \in Limits :
         LET playlist_id == IF inp[2] THEN inp[1] ELSE search_list_id(inp[1])
             call == [calls[c] EXCEPT !.op = "playlist", !.link = inp[1],
                                      !.videoid = inp[2], !.limit = limit]
         IN  calls' = [calls EXCEPT ![c] =
                 IF ~inp[2] /\ playlist_id = None THEN Finish(call, Return(<<>>))
                 ELSE Issue([call EXCEPT !.query = playlist_id],
                            PlaylistParams(playlist_id, limit), "await_playlistItems")]
    /\ UNCHANGED <<YOUTUBE_API_KEY, logged, files, duration_iso, parsed>>

\* the playlistItems round trip ends; playlist() runs to its end
PlaylistReturns(c) ==
    /\ calls[c].pc = "await_playlistItems"
    /\ \E answer \in ProviderAnswers(calls[c].reqs[Len(calls[c].reqs)]) :
         LET data == fetch_from_api(answer)
             call == [calls[c] EXCEPT !.answers = Append(@, answer)]
         IN  /\ logged' = logged \cup fetch_log(answer)
             /\ calls' = [calls EXCEPT ![c] =
                  IF Propagates(data) THEN Finish(call, Raise(data.kind, "transport"))
                  ELSE Finish(call, Return(PlaylistResult(data)))]
    /\ UNCHANGED <<YOUTUBE_API_KEY, files, duration_iso, parsed>>

Init ==
    /\ YOUTUBE_API_KEY \in ApiKeys
    /\ logged = InitLogged
    /\ calls = [c \in Tasks |-> IdleCall]
    /\ files = {}
    /\ duration_iso = [form |-> "missing", text |-> None, m |-> 0 - 1, s |-> 0 - 1]
    /\ parsed = <<>>

Next ==
    \E c \in Tasks :
        \/ DetailsCall(c)
        \/ SearchReturns(c)
        \/ VideosReturns(c)
        \/ PlaylistCall(c)
        \/ PlaylistReturns(c)

Spec == Init /\ [][Next]_vars

----------------------------------------------------------------------------
(* yt-dlp: video() and download().                                         *)

\* what ydl.extract_info(link, download=False) can do
ExtractOutcomes ==
    { [ok |-> TRUE, text |-> "https://rr1.googlevideo.com/videoplayback"],
      [ok |-> FALSE, text |-> "ERROR: Video unavailable"] }

\* video() without its try statement
VideoResultUnhandled(outcome) ==
    IF outcome.ok THEN Return(<<1, outcome.text>>)
    ELSE Raise("DownloadError", outcome.text)

\* video(), the try statement: (1, info['url']) or (0, str(e))
VideoResult(outcome) ==
    IF outcome.ok THEN Return(<<1, outcome.text>>) ELSE Return(<<0, outcome.text>>)

\* (link, videoid) pairs video() is called with
VideoInputs == { <<WatchLink, FALSE>>, <<BareId, TRUE>> }

\* tasks that have already returned or raised
Done == {d \in Tasks : calls[d].pc = "done"}

\* video(link, videoid): it has no await, so it runs in one piece
VideoCall(c) ==
    /\ calls[c].pc = "idle"
    /\ \E inp \in VideoInputs, outcome \in ExtractOutcomes :
         LET link == IF inp[2] THEN base \o inp[1] ELSE inp[1]
             call == [calls[c] EXCEPT !.op = "video", !.link = link,
                                      !.videoid = inp[2], !.after = Done,
                                      !.resolver = IF outcome.ok THEN "ok" ELSE "error"]
         IN  /\ calls' = [calls EXCEPT ![c] = Finish(call, VideoResult(outcome))]
             /\ logged' = logged \cup
                   IF outcome.ok THEN {} ELSE {"Error extracting video link with yt-dlp"}
    /\ UNCHANGED <<YOUTUBE_API_KEY, files, duration_iso, parsed>>

\* os.urandom(4).hex(): two of the 2^32 values
RandomHex == { <<"0","a","1","b","2","c","3","d">>, <<"d","e","a","d","b","e","e","f">> }

\* os.path.join("downloads", f"{video_id}.mp4") or ....mp3
Filepath(video_id, video) ==
    <<"d","o","w","n","l","o","a","d","s">> \o <<"/">> \o video_id
    \o (IF video THEN <<".","m","p","4">> ELSE <<".","m","p","3">>)

\* the test of line 219 never finding the file
PathExistsNever(filepath) == FALSE

\* os.path.exists(filepath)
PathExists(filepath) == filepath \in files

\* ytdl_download(), the try statement around ydl.download([link])
YdlResult(ok, filepath) ==
    IF ok THEN Return(<<filepath, TRUE>>) ELSE Return(<<None, FALSE>>)

\* (link, videoid, video) triples download() is called with
DownloadInputs ==
    { <<WatchLink, FALSE, FALSE>>, <<WatchLink, FALSE, TRUE>>,
      <<FreeText, FALSE, FALSE>>, <<BareId, TRUE, FALSE>> }

\* download(link, mystic, video, videoid) up to its await: ytdl_download is
\* handed to the default thread pool
DownloadCall(c) ==
    /\ calls[c].pc = "idle"
    /\ \E inp \in DownloadInputs :
         calls' = [calls EXCEPT ![c] =
             [@ EXCEPT !.op = "download", !.pc = "executor",
                       !.link = IF inp[2] THEN base \o inp[1] ELSE inp[1],
                       !.videoid = inp[2], !.video = inp[3], !.after = Done]]
    /\ UNCHANGED <<YOUTUBE_API_KEY, logged, files, duration_iso, parsed>>

\* ytdl_download() waiting while another call downloads to the same path
ExistsCheckHoldingPath(c) ==
    /\ calls[c].pc = "executor"
    /\ \E hex \in RandomHex :
         LET id == extract_video_id(calls[c].link)
             video_id == IF Falsy(id) THEN <<"t","e","m","p","_">> \o hex ELSE id
             filepath == Filepath(video_id, calls[c].video)
             call == [calls[c] EXCEPT !.query = video_id, !.filepath = filepath]
         IN  /\ \A d \in Tasks \ {c} :
                  ~(calls[d].pc = "ydl_download" /\ calls[d].filepath = filepath)
             /\ calls' = [calls EXCEPT ![c] =
                 IF PathExists(filepath) THEN Finish(call, Return(<<filepath, TRUE>>))
                 ELSE [call EXCEPT !.pc = "ydl_download", !.ydl_downloads = @ + 1]]
    /\ UNCHANGED <<YOUTUBE_API_KEY, logged, files, duration_iso, parsed>>

\* ytdl_download() in its worker thread, up to os.path.exists(filepath): it
\* returns the path of a file that is there, and otherwise goes on to call
\* ydl.download([link]).  Nothing is held between the test and the download.
ExistsCheck(c) ==
    /\ calls[c].pc = "executor"
    /\ \E hex \in RandomHex :
         LET id == extract_video_id(calls[c].link)
             video_id == IF Falsy(id) THEN <<"t","e","m","p","_">> \o hex ELSE id
             filepath == Filepath(video_id, calls[c].video)
             call == [calls[c] EXCEPT !.query = video_id, !.filepath = filepath]
         IN  calls' = [calls EXCEPT ![c] =
                 IF PathExists(filepath) THEN Finish(call, Return(<<filepath, TRUE>>))
                 ELSE [call EXCEPT !.pc = "ydl_download", !.ydl_downloads = @ + 1]]
    /\ UNCHANGED <<YOUTUBE_API_KEY, logged, files, duration_iso, parsed>>

\* ydl.download([link]) ends.  Done, the file is at outtmpl.  Failed, yt-dlp
\* may have written outtmpl already (the audio file is downloaded to
\* <id>.mp3 before FFmpegExtractAudio runs) or not.
YdlReturns(c) ==
    /\ calls[c].pc = "ydl_download"
    /\ \E ok \in BOOLEAN, written \in BOOLEAN :
         /\ ok => written
         /\ files' = IF written THEN files \cup {calls[c].filepath} ELSE files
         /\ logged' = logged \cup IF ok THEN {} ELSE {"yt-dlp download error"}
         /\ calls' = [calls EXCEPT ![c] =
              Finish([@ EXCEPT !.resolver = IF ok THEN "ok" ELSE "error"],
                     YdlResult(ok, calls[c].filepath))]
    /\ UNCHANGED <<YOUTUBE_API_KEY, duration_iso, parsed>>

NextResolver ==
    \E c \in Tasks :
        \/ VideoCall(c)
        \/ DownloadCall(c)
        \/ ExistsCheck(c)
        \/ YdlReturns(c)

\* video() and download() send nothing to the Google API: the key is any one
InitResolver ==
    /\ Init
    /\ ~Falsy(YOUTUBE_API_KEY)

SpecResolver == InitResolver /\ [][NextResolver]_vars

----------------------------------------------------------------------------
(* SpecDuration: _parse_duration applied to generated arguments.           *)

Absent == 0 - 1
NotYet == <<>>

\* "PT" [m "M"] [s "S"], a component left out when it is Absent
BuildIso(m, s) ==
    <<"P", "T">>
    \o (IF m = Absent THEN <<>> ELSE IntToStr(m) \o <<"M">>)
    \o (IF s = Absent THEN <<>> ELSE IntToStr(s) \o <<"S">>)

\* texts that are no ISO-8601 duration
Unparseable ==
    { <<"a","b","c">>, <<"P">>, <<"4","M","3","0","S">>,
      <<"P","T","4","M","3","0">>, <<"P","T","M">>, <<"P","T","3","0","S","4","M">> }

DurationInputs ==
    { [form |-> "PTMS", text |-> BuildIso(m, s), m |-> m, s |-> s] :
        m \in {Absent} \cup 0..MaxMinutes, s \in {Absent} \cup 0..MaxSeconds }
    \cup { [form |-> "missing", text |-> t, m |-> Absent, s |-> Absent] :
             t \in {None, EmptyStr} }
    \cup { [form |-> "unparseable", text |-> t, m |-> Absent, s |-> Absent] :
             t \in Unparseable }

InitDuration ==
    /\ YOUTUBE_API_KEY = <<"k">>
    /\ logged = {}
    /\ calls = <<>>
    /\ files = {}
    /\ duration_iso \in DurationInputs
    /\ parsed = NotYet

\* the call self._parse_duration(duration_iso)
ParseDurationCall ==
    /\ parsed = NotYet
    /\ parsed' = parse_duration(duration_iso.text)
    /\ UNCHANGED <<YOUTUBE_API_KEY, logged, calls, files, duration_iso>>

\* the next lookup brings another duration
NextDuration ==
    /\ parsed # NotYet
    /\ duration_iso' \in DurationInputs
    /\ parsed' = NotYet
    /\ UNCHANGED <<YOUTUBE_API_KEY, logged, calls, files>>

NextDurationSpec == ParseDurationCall \/ NextDuration

SpecDuration == InitDuration /\ [][NextDurationSpec]_vars

----------------------------------------------------------------------------
(* C8 *)

Comp(x) == IF x = Absent THEN 0 ELSE x

\* C8 (as stated): for PT{m}M{s}S the parser yields 60*m + s seconds and the
\* text f"{m}:{s:02d}"; a missing or unparseable duration yields (0, "0:00").
C8_AsStated ==
    parsed # NotYet =>
        IF duration_iso.form = "PTMS"
        THEN parsed = <<60 * Comp(duration_iso.m) + Comp(duration_iso.s),
                        DurationTextUnpadded(Comp(duration_iso.m), Comp(duration_iso.s))>>
        ELSE parsed = <<0, <<"0", ":", "0", "0">> >>

\* C8 (amended): for PT{m}M{s}S, either component optional, the parser yields
\* total = 60*m + s seconds and the text f"{total // 60:02d}:{total % 60:02d}"
\* (PT4M30S gives (270, "04:30"), PT45S gives (45, "00:45")); a missing
\* duration, PT alone or an unparseable text yields (0, "00:00").
C8_ParseDuration ==
    parsed # NotYet =>
        /\ duration_iso.form = "PTMS" =>
              LET total == 60 * Comp(duration_iso.m) + Comp(duration_iso.s)
              IN  /\ parsed[1] = total
                  /\ Len(parsed[2]) >= 5
                  /\ parsed[2][Len(parsed[2]) - 2] = ":"
                  /\ StrToInt(Slice(parsed[2], 1, Len(parsed[2]) - 3)) = total \div 60
                  /\ StrToInt(Slice(parsed[2], Len(parsed[2]) - 1, Len(parsed[2]))) = total % 60
        /\ duration_iso.form # "PTMS" => parsed = <<0, <<"0", "0", ":", "0", "0">> >>
        /\ duration_iso.text = <<"P", "T">> => parsed = <<0, <<"0", "0", ":", "0", "0">> >>
        /\ duration_iso.text = <<"P", "T", "4", "M", "3", "0", "S">>
              => parsed = <<270, <<"0", "4", ":", "3", "0">> >>
        /\ duration_iso.text = <<"P", "T", "4", "5", "S">>
              => parsed = <<45, <<"0", "0", ":", "4", "5">> >>

C8_Witness ==
    /\ duration_iso.text = <<"P", "T", "4", "M", "3", "0", "S">>
    /\ parsed = <<270, <<"0", "4", ":", "3", "0">> >>


----------------------------------------------------------------------------
(* Claims about details() and playlist(), under Spec.                      *)

NoItems(answer) == answer.kind # "json" \/ answer.items = <<>>

\* a details() call with free text: videoid not set and no ID in the link
FreeTextCall(c) ==
    /\ calls[c].op = "details"
    /\ ~calls[c].videoid
    /\ Falsy(extract_video_id(calls[c].link))

\* a details() call with a direct ID: passed with videoid, or found in the link
DirectCall(c) ==
    /\ calls[c].op = "details"
    /\ calls[c].videoid \/ ~Falsy(extract_video_id(calls[c].link))

DirectId(c) ==
    IF calls[c].videoid THEN calls[c].link ELSE extract_video_id(calls[c].link)

\* C1: a details() call with free text requests search first and then videos
\* with the ID of the first search item; when the search gives no item it
\* raises ValueError and no videos request is made in that call.
C1_SearchThenDetail ==
    \A c \in Tasks : FreeTextCall(c) =>
        LET r == calls[c].reqs
            a == calls[c].answers
        IN  /\ Len(r) \in {1, 2}
            /\ r[1].endpoint = "search"
            /\ r[1].arg = calls[c].link
            /\ Len(r) = 2 =>
                 /\ r[2].endpoint = "videos"
                 /\ Len(a) >= 1
                 /\ ~NoItems(a[1])
                 /\ r[2].arg = a[1].items[1].id.videoId
            /\ (Len(a) >= 1 /\ NoItems(a[1])) =>
                 /\ Len(r) = 1
                 /\ calls[c].pc = "done"
                 /\ calls[c].result = Raise("ValueError", "No video found on YouTube.")

C1_Witness ==
    \E c, d \in Tasks :
        /\ FreeTextCall(c)
        /\ calls[c].pc = "done"
        /\ Len(calls[c].reqs) = 2
        /\ calls[c].result.kind = "return"
        /\ FreeTextCall(d)
        /\ calls[d].pc = "done"
        /\ calls[d].answers = <<Json(<<>>)>>
        /\ calls[d].result.kind = "raise"

\* C2: a details() call with a direct ID never requests search: its one
\* request goes to videos, with that ID.
C2_DirectIdSkipsSearch ==
    \A c \in Tasks : DirectCall(c) =>
        /\ Len(calls[c].reqs) = 1
        /\ calls[c].reqs[1].endpoint = "videos"
        /\ calls[c].reqs[1].arg = DirectId(c)

C2_Witness ==
    \E c, d \in Tasks :
        /\ DirectCall(c)
        /\ ~calls[c].videoid
        /\ calls[c].pc = "done"
        /\ calls[c].result.kind = "return"
        /\ calls[c].result.value[5] = BareId
        /\ DirectCall(d)
        /\ calls[d].videoid
        /\ calls[d].pc = "done"

\* C3: details() returns a record only when the videos endpoint answered
\* with an item, whose title and id the record carries; when a round trip
\* gives no items or no answer it raises ValueError.
C3_RecordOnlyWithItem ==
    \A c \in Tasks : (calls[c].op = "details" /\ calls[c].pc = "done") =>
        LET r == calls[c].reqs
            a == calls[c].answers
            res == calls[c].result
        IN  /\ res.kind \in {"return", "raise"}
            /\ Len(a) = Len(r)
            /\ res.kind = "return" =>
                 /\ r[Len(r)].endpoint = "videos"
                 /\ ~NoItems(a[Len(a)])
                 /\ res.value[1] = a[Len(a)].items[1].title
                 /\ res.value[1] # ""
                 /\ res.value[5] = a[Len(a)].items[1].id
                 /\ res.value[5] # EmptyStr
            /\ (\E i \in 1..Len(a) : NoItems(a[i])) =>
                 /\ res.kind = "raise"
                 /\ res.value[1] = "ValueError"

C3_Witness ==
    \E c, d \in Tasks :
        /\ calls[c].op = "details"
        /\ calls[c].pc = "done"
        /\ Len(calls[c].answers) = 2
        /\ calls[c].answers[2] = Json(<<>>)
        /\ calls[c].result.kind = "raise"
        /\ calls[d].op = "details"
        /\ calls[d].pc = "done"
        /\ calls[d].result.kind = "return"

\* a playlist() call whose link holds no list= parameter, videoid not set
NoPlaylistId(c) == ~calls[c].videoid /\ search_list_id(calls[c].link) = None

\* C6: playlist() returns at most `limit` IDs, the IDs of the provider's
\* items in the provider's order; when no playlist ID is found in the link
\* it returns [] without raising and without a request.
C6_Playlist ==
    \A c \in Tasks : (calls[c].op = "playlist" /\ calls[c].pc = "done") =>
        LET r == calls[c].reqs
            a == calls[c].answers
            res == calls[c].result
        IN  /\ res.kind = "return"
            /\ Len(res.value) <= calls[c].limit
            /\ NoPlaylistId(c) => (res.value = <<>> /\ r = <<>> /\ a = <<>>)
            /\ ~NoPlaylistId(c) =>
                 /\ Len(r) = 1
                 /\ Len(a) = 1
                 /\ r[1].endpoint = "playlistItems"
                 /\ r[1].maxResults = calls[c].limit
                 /\ Len(res.value) = Len(a[1].items)
                 /\ \A i \in 1..Len(res.value) :
                        res.value[i] = a[1].items[i].snippet.resourceId.videoId

C6_Witness ==
    \E c, d \in Tasks :
        /\ calls[c].op = "playlist"
        /\ calls[c].pc = "done"
        /\ calls[c].limit = MaxLimit
        /\ Len(calls[c].result.value) = MaxLimit
        /\ calls[c].result.value[1] = OtherId
        /\ calls[c].result.value[2] = BareId
        /\ calls[d].op = "playlist"
        /\ calls[d].pc = "done"
        /\ NoPlaylistId(d)

\* C7: with the API key absent, details() and playlist() end before any
\* request is sent: no request leaves without a non-empty key.
C7_NoRequestWithoutKey ==
    \A c \in Tasks : \A i \in 1..Len(calls[c].reqs) : ~Falsy(calls[c].reqs[i].key)

Endpoints(c) == {calls[c].reqs[i].endpoint : i \in 1..Len(calls[c].reqs)}

\* C9: within one call each endpoint is requested at most once (details:
\* search and videos, playlist: playlistItems); a round trip that fails is
\* the call's last, which ends with ValueError raised (details) or []
\* returned (playlist); no call ends with another exception.
C9_NoRetry ==
    \A c \in Tasks :
        LET r == calls[c].reqs
            a == calls[c].answers
            res == calls[c].result
        IN  /\ Cardinality(Endpoints(c)) = Len(r)
            /\ calls[c].op = "details" =>
                 (Len(r) <= 2 /\ Endpoints(c) \subseteq {"search", "videos"})
            /\ calls[c].op = "playlist" =>
                 (Len(r) <= 1 /\ Endpoints(c) \subseteq {"playlistItems"})
            /\ \A i \in 1..Len(a) : a[i].kind = "RequestException" =>
                 /\ i = Len(r)
                 /\ calls[c].pc = "done"
                 /\ calls[c].op = "details" =>
                      (res.kind = "raise" /\ res.value[1] = "ValueError")
                 /\ calls[c].op = "playlist" => res = Return(<<>>)
            /\ res.kind = "raise" => res.value[1] = "ValueError"

C9_Witness ==
    \E c, d \in Tasks :
        /\ calls[c].op = "details"
        /\ calls[c].pc = "done"
        /\ Len(calls[c].reqs) = 2
        /\ calls[c].answers[2] = RequestException
        /\ calls[d].op = "playlist"
        /\ calls[d].pc = "done"
        /\ calls[d].answers = <<RequestException>>

----------------------------------------------------------------------------
(* Claims about video() and download(), under SpecResolver.                *)

\* download() called a second time, after the first call has ended, with
\* the same link and media kind
Succession(a, b) ==
    /\ a # b
    /\ calls[a].op = "download" /\ calls[a].pc = "done"
    /\ calls[b].op = "download" /\ calls[b].pc = "done"
    /\ a \in calls[b].after
    /\ calls[a].link = calls[b].link
    /\ calls[a].video = calls[b].video
    /\ calls[a].videoid = calls[b].videoid

C5_FailuresReturned ==
    \A c \in Tasks : (calls[c].op \in {"video", "download"} /\ calls[c].pc = "done") =>
        /\ calls[c].result.kind = "return"
        /\ Len(calls[c].result.value) = 2
        /\ (calls[c].op = "video" /\ calls[c].resolver = "error") =>
              calls[c].result.value[1] = 0
        /\ (calls[c].op = "video" /\ calls[c].resolver = "ok") =>
              calls[c].result.value[1] = 1
        /\ (calls[c].op = "download" /\ calls[c].resolver = "error") =>
              calls[c].result.value = <<None, FALSE>>

C5_Witness ==
    \E c, d \in Tasks :
        /\ calls[c].op = "video"
        /\ calls[c].resolver = "error"
        /\ calls[c].result.value[1] = 0
        /\ calls[d].op = "download"
        /\ calls[d].resolver = "error"
        /\ calls[d].result.value = <<None, FALSE>>

\* C10: download() calls are not coordinated: a call whose ytdl_download has
\* been handed to the thread pool can always make its os.path.exists test
\* and go on, whatever the other calls are doing, also while another call
\* is downloading to the same path.
C10_NotCoordinated ==
    \A c \in Tasks : calls[c].pc = "executor" => ENABLED ExistsCheck(c)

\* two calls that both found the file absent are in ydl.download for one path
C10_Witness ==
    \E a, b \in Tasks :
        /\ a # b
        /\ calls[a].pc = "ydl_download"
        /\ calls[b].pc = "ydl_download"
        /\ calls[a].filepath = calls[b].filepath
        /\ calls[a].ydl_downloads = 1
        /\ calls[b].ydl_downloads = 1
        /\ calls[a].filepath \notin files

============================================================================
